---- MODULE Spec2Model ----
(***************************************************************************)
(* Model of mcp-ssh-manager: the encrypted credential store (src/db.rs),   *)
(* its master-key lifecycle (startup, credential migration, key rotation)  *)
(* and the callers that share one DbHandler: the protocol thread           *)
(* (src/main.rs) and the GUI thread (src/gui).                             *)
(*                                                                         *)
(* A credential string is modelled as [layers, text]: text is the          *)
(* innermost plaintext and layers the keys it has been encrypted under,    *)
(* outermost first.  A plaintext has no layers.                            *)
(***************************************************************************)
EXTENDS Integers, Sequences, FiniteSets, TLC

\* ---------------------------------------------------------------- bounds
MaxAccounts == 2
MaxMachines == 2
MaxKeys == 3
MaxStarts == 2

\* ------------------------------------------------------------- constants
NoKey == 0
Keys == 1..MaxKeys
\* db.rs:256, the masking sentinel of list_accounts
SENTINEL == "[ENCRYPTED/RESTRICTED]"
\* credentials a caller may supply (any string is accepted by get_str)
PlainTexts == {"hunter2", SENTINEL}
\* onboarding.rs:51, the credential the GUI wizard stores
TPM_CREDENTIAL == "TPM_HARDWARE_BOUND"
MachineNames == {"alpha", "beta"}
NoTx == [open |-> FALSE, staged |-> <<>>]

Plain(t) == [layers |-> <<>>, text |-> t]
CryptoError == [ok |-> FALSE, value |-> Plain("CryptoError")]

\* SecurityManager::encrypt: a self-contained ciphertext of `v` under `key`
Encrypt(key, v) == [layers |-> <<key>> \o v.layers, text |-> v.text]

\* SecurityManager::decrypt: succeeds only on a ciphertext made under `key`
Decrypt(key, v) ==
    IF v.layers # <<>> /\ Head(v.layers) = key
    THEN [ok |-> TRUE, value |-> [layers |-> Tail(v.layers), text |-> v.text]]
    ELSE CryptoError

IsCiphertext(v) == v.layers # <<>>

\* the bytes of key `key`, as a value a column could hold
KeyMaterial(key) == [layers |-> <<>>, text |-> ToString(key)]

\* a serde_json::Value, as far as the protocol's answers are told apart:
\* its kind, the machine id its text mentions, the tools it describes
JsonNull == [kind |-> "null", n |-> 0, tools |-> <<>>]
Text(n) == [kind |-> "text", n |-> n, tools |-> <<>>]

VARIABLES
    machines,       \* table machines: set of rows [id, name, status]
    accounts,       \* table accounts: id -> [machine_id, credential]
    constraints,    \* table constraints: set of rows [id, machine_id]
    nextMachineId,  \* AUTOINCREMENT counter of machines
    nextAccountId,  \* AUTOINCREMENT counter of accounts
    keyring,        \* OS credential store entry "master_key" (NoKey: absent)
    master_key,     \* DbHandler.master_key (NoKey: no process running)
    keysMade,       \* number of keys generated so far (each one fresh)
    stderr,         \* key material printed to the operator-visible output
    pc,             \* position of the main / protocol thread
    items,          \* local `items` of migrate_credentials / rotate_keys
    idx,            \* position of the `for` loop in `items`
    new_key,        \* local `new_key` of rotate_keys
    tx,             \* the open database transaction and its staged updates
    reply,          \* outcome of the last operation of the protocol thread
    reg,            \* locals of handle_register_machine_sync
    gpc,            \* position of the GUI thread
    genc,           \* GUI thread local: the row it is about to insert
    listed,         \* the Vec<Account> last returned by list_accounts
    starts,         \* number of process starts so far
    migrations,     \* runs of migrate_credentials in the current process
    effects,        \* effects of the current rotate_keys call, in order
    interfered,     \* another thread wrote `accounts` during the current call
    migrated,       \* key and store left by the last completed migration,
                    \* forgotten once the store is written again
    req,            \* run_mcp_loop: the request being handled (NoReq: none)
    stdin,          \* the ids of the requests read from the input so far
    stdout,         \* the responses written to the output so far
    diag,           \* locals of handle_diagnose_connection after a failed probe
    loads,          \* runs of load_troubleshooting_patterns in the process
    printed         \* the other lines written to the standard output, each
                    \* with the number of response lines written before it

vars == <<machines, accounts, constraints, nextMachineId, nextAccountId, keyring,
          master_key, keysMade, stderr, pc, items, idx, new_key, tx, reply,
          reg, gpc, genc, listed, starts, migrations, effects, interfered,
          migrated, req, stdin, stdout, diag, loads, printed>>

\* the state of run_mcp_loop and of the handler it has called
mcpVars == <<req, stdin, stdout, diag, loads, printed>>

\* ------------------------------------------------------------ the store
NoReply == [op |-> "none", status |-> "none", value |-> JsonNull]
NoRow == [id |-> 0, machine_id |-> 0, credential |-> Plain("")]
NoArgs == [machine_id |-> 0, credential |-> Plain(""), missing |-> "none"]
NeverMigrated == [key |-> NoKey, store |-> <<>>]
\* JsonRpcRequest.id is an Option: NoId is None (the member absent or null)
NoId == 0
NoReq == [id |-> NoId, method |-> "none", params |-> FALSE, name |-> "none",
          arguments |-> FALSE]
NoDiag == [stage |-> "none", machine_id |-> 0, account |-> 0, stderr |-> "",
           patterns |-> <<>>]

\* "SELECT id, credential FROM accounts": the rows in rowid order
RECURSIVE SelectFrom(_, _)
SelectFrom(accts, from) ==
    IF \A id \in DOMAIN accts : id < from THEN <<>>
    ELSE IF from \in DOMAIN accts
         THEN <<[id |-> from, credential |-> accts[from].credential]>>
              \o SelectFrom(accts, from + 1)
         ELSE SelectFrom(accts, from + 1)

SelectCredentials(accts) == SelectFrom(accts, 1)

\* the accounts table after `staged` (id -> credential) is committed:
\* "UPDATE accounts SET credential = ?1 WHERE id = ?2" for each staged id
CommitStaged(accts, staged) ==
    [id \in DOMAIN accts |->
        IF id \in DOMAIN staged
        THEN [accts[id] EXCEPT !.credential = staged[id]]
        ELSE accts[id]]

InsertRow(accts, id, row) ==
    [i \in DOMAIN accts \cup {id} |-> IF i = id THEN row ELSE accts[i]]

\* the staged updates of the open transaction with one more UPDATE
StageUpdate(staged, id, cred) ==
    [i \in DOMAIN staged \cup {id} |-> IF i = id THEN cred ELSE staged[i]]

\* mutant: the UPDATE is executed outside the transaction and so persists
\* at once
tx_execute_autocommit(id, cred) ==
    /\ accounts' = CommitStaged(accounts, id :> cred)
    /\ UNCHANGED tx

\* what tx.execute("UPDATE ...") inside the open transaction changes: the
\* update is staged, the table itself changes only at commit
tx_execute(id, cred) ==
    /\ tx' = [tx EXCEPT !.staged = StageUpdate(tx.staged, id, cred)]
    /\ UNCHANGED accounts

\* --------------------------------------------------------------- startup
\* a first run finds no database or one written before credentials were
\* encrypted; a later run finds any mix of legacy and encrypted credentials
InitStores(k) ==
    IF k = NoKey
    THEN UNION {[1..n -> [machine_id : {1}, credential : {Plain("hunter2")}]] :
                    n \in 0..1}
    ELSE [1..2 -> [machine_id : {1},
                   credential : {Plain("hunter2"), Encrypt(k, Plain("hunter2"))}]]

Init ==
    /\ keyring \in {NoKey, 1}
    /\ keysMade = (IF keyring = NoKey THEN 0 ELSE 1)
    /\ accounts \in InitStores(keyring)
    /\ machines = (IF accounts = <<>> THEN {}
                   ELSE {[id |-> 1, name |-> "alpha", status |-> "active"]})
    /\ constraints = {[id |-> m.id, machine_id |-> m.id] : m \in machines}
    /\ nextMachineId = (IF accounts = <<>> THEN 1 ELSE 2)
    /\ nextAccountId = Len(accounts) + 1
    /\ master_key = NoKey
    /\ stderr = {}
    /\ pc = "stopped"
    /\ items = <<>>
    /\ idx = 0
    /\ new_key = NoKey
    /\ tx = NoTx
    /\ reply = NoReply
    /\ reg = NoArgs
    /\ gpc = "off"
    /\ genc = NoRow
    /\ listed = {}
    /\ starts = 0
    /\ migrations = 0
    /\ effects = <<>>
    /\ interfered = FALSE
    /\ migrated = NeverMigrated
    /\ req = NoReq
    /\ stdin = <<>>
    /\ stdout = <<>>
    /\ diag = NoDiag
    /\ loads = 0
    /\ printed = <<>>

\* what the end of the process leaves: the database file and the keyring
\* survive, every in-memory value is gone, an open transaction is rolled back
ProcessEnds ==
    /\ pc' = "stopped"
    /\ master_key' = NoKey
    /\ items' = <<>>
    /\ idx' = 0
    /\ new_key' = NoKey
    /\ tx' = NoTx
    /\ reg' = NoArgs
    /\ gpc' = "off"
    /\ genc' = NoRow
    /\ listed' = {}
    /\ effects' = <<>>
    /\ interfered' = FALSE

\* DbHandler::new returns an error through `?` and main exits
StartFails ==
    /\ ProcessEnds
    /\ reply' = [op |-> "new", status |-> "err", value |-> JsonNull]

\* mutant: the handler is returned without migrate_credentials being called
DbHandler_new_skips_migration ==
    /\ UNCHANGED mcpVars
    /\ pc = "stopped"
    /\ starts < MaxStarts
    /\ starts' = starts + 1
    /\ migrations' = 0
    /\ keyring # NoKey
    /\ master_key' = keyring
    /\ pc' = "idle"
    /\ gpc' = "idle"
    /\ reply' = [op |-> "new", status |-> "ok", value |-> JsonNull]
    /\ UNCHANGED <<machines, constraints, accounts, nextMachineId,
                   nextAccountId, stderr, migrated, keyring, keysMade, items,
                   idx, new_key, tx, reg, genc, listed, effects, interfered>>

\* DbHandler::new, lines 57-69: open the database, get or create the
\* master key, build the handler, create the tables if absent
DbHandler_new ==
    /\ UNCHANGED mcpVars
    /\ pc = "stopped"
    /\ starts < MaxStarts
    /\ starts' = starts + 1
    /\ migrations' = 0
    /\ UNCHANGED <<machines, constraints, accounts, nextMachineId, nextAccountId, stderr,
                   migrated>>
    /\ \/ \* the database cannot be opened, or the keyring is unreachable
          /\ StartFails
          /\ UNCHANGED <<keyring, keysMade>>
       \/ /\ keyring # NoKey \/ keysMade < MaxKeys
          /\ LET key == IF keyring = NoKey THEN keysMade + 1 ELSE keyring
             IN  /\ keyring' = key
                 /\ keysMade' = (IF keyring = NoKey THEN keysMade + 1 ELSE keysMade)
                 /\ \/ \* init_schema fails
                       StartFails
                    \/ /\ master_key' = key
                       /\ pc' = "migrate"
                       /\ reply' = NoReply
                       /\ UNCHANGED <<items, idx, new_key, tx, reg, gpc, genc, listed,
                                      effects, interfered>>

\* migrate_credentials, lines 75-82: open the transaction and read the rows
migrate_credentials_begin ==
    /\ UNCHANGED mcpVars
    /\ pc = "migrate"
    /\ migrations' = migrations + 1
    /\ UNCHANGED <<machines, constraints, accounts, nextMachineId, nextAccountId, keyring,
                   keysMade, stderr, starts, migrated>>
    /\ \/ \* get_conn, transaction or the SELECT fails
          StartFails
       \/ /\ items' = SelectCredentials(accounts)
          /\ idx' = 1
          /\ tx' = [open |-> TRUE, staged |-> <<>>]
          /\ pc' = "mig_loop"
          /\ UNCHANGED <<master_key, new_key, reply, reg, gpc, genc, listed,
                         effects, interfered>>

\* mutant: every row is encrypted again, whether or not it decrypts
needs_migration_always(key, cred) == TRUE

\* mutant: the test is inverted, so legacy plaintext is left as it is
needs_migration_inverted(key, cred) == Decrypt(key, cred).ok

\* migrate_credentials, line 87: the row is taken for legacy plaintext
needs_migration(key, cred) == ~Decrypt(key, cred).ok

\* migrate_credentials, lines 84-94: one iteration of the loop
migrate_credentials_row ==
    /\ UNCHANGED mcpVars
    /\ pc = "mig_loop"
    /\ idx <= Len(items)
    /\ UNCHANGED <<machines, constraints, nextMachineId, nextAccountId, keyring, keysMade,
                   stderr, starts, migrations, migrated>>
    /\ LET id == items[idx].id
           cred == items[idx].credential
       IN  IF needs_migration(master_key, cred)
           THEN \/ \* encrypt or the UPDATE fails
                   /\ StartFails
                   /\ UNCHANGED accounts
                \/ /\ tx_execute(id, Encrypt(master_key, cred))
                   /\ idx' = idx + 1
                   /\ UNCHANGED <<master_key, pc, items, new_key, reply, reg, gpc,
                                  genc, listed, effects, interfered>>
           ELSE /\ idx' = idx + 1
                /\ UNCHANGED <<accounts, master_key, pc, items, new_key, tx,
                               reply, reg, gpc, genc, listed, effects, interfered>>

\* migrate_credentials, lines 96-97, and the return of DbHandler::new: the
\* protocol loop and the GUI start only after this
migrate_credentials_commit ==
    /\ UNCHANGED mcpVars
    /\ pc = "mig_loop"
    /\ idx > Len(items)
    /\ UNCHANGED <<machines, constraints, nextMachineId, nextAccountId, keyring, keysMade,
                   stderr, starts, migrations>>
    /\ \/ /\ StartFails
          /\ UNCHANGED <<accounts, migrated>>
       \/ /\ accounts' = CommitStaged(accounts, tx.staged)
          /\ migrated' = [key |-> master_key, store |-> accounts']
          /\ tx' = NoTx
          /\ items' = <<>>
          /\ idx' = 0
          /\ pc' = "idle"
          /\ gpc' = "idle"
          /\ reply' = [op |-> "new", status |-> "ok", value |-> JsonNull]
          /\ UNCHANGED <<master_key, new_key, reg, genc, listed, effects,
                         interfered>>

\* the process ends (window closed, end of input, or killed) at any point
ProcessExit ==
    /\ UNCHANGED mcpVars
    /\ pc # "stopped"
    /\ ProcessEnds
    /\ reply' = NoReply
    /\ UNCHANGED <<machines, constraints, accounts, nextMachineId, nextAccountId, keyring,
                   keysMade, stderr, starts, migrations, migrated>>

\* ---------------------------------------------------------- key rotation
RotStates == {"rot_loop", "rot_keyring", "rot_swap"}

\* the RwLock around master_key. Every hold but one begins and ends within
\* one step; rotate_keys holds the lock shared from line 347 to the end of
\* the re-encryption block at line 364.
\* mutant: the shared hold of rotate_keys lasts until the function returns
KeyLockReaders_held_until_return ==
    IF pc \in RotStates THEN {"rotate_keys"} ELSE {}

KeyLockReaders == IF pc = "rot_loop" THEN {"rotate_keys"} ELSE {}

\* the exclusive hold of lines 379-382 begins and ends within the swap step
KeyLockWriter == "none"

\* RwLock::read returns: no thread holds the lock exclusively
RwLock_read == KeyLockWriter = "none"

\* RwLock::write returns: no thread, the caller included, holds the lock
RwLock_write == KeyLockWriter = "none" /\ KeyLockReaders = {}

RotReply(status) == [op |-> "rotate_keys", status |-> status, value |-> Text(0)]

\* mutant: the updates staged so far survive the early return
rotate_keys_fails_keeps_writes ==
    /\ pc' = "idle"
    /\ tx' = NoTx
    /\ reply' = RotReply("err")
    /\ items' = <<>>
    /\ idx' = 0
    /\ new_key' = NoKey
    /\ interfered' = FALSE
    /\ accounts' = CommitStaged(accounts, tx.staged)
    /\ UNCHANGED <<keyring, master_key, stderr, effects>>

\* mutant: the error leaves the protocol loop instead of being answered
rotate_keys_fails_ends_loop ==
    /\ pc' = "stopped"
    /\ tx' = NoTx
    /\ reply' = RotReply("err")
    /\ items' = <<>>
    /\ idx' = 0
    /\ new_key' = NoKey
    /\ interfered' = FALSE
    /\ UNCHANGED <<accounts, keyring, master_key, stderr, effects>>

\* mutant: the early return prints the key generated for the rotation
rotate_keys_fails_prints_key ==
    /\ pc' = "idle"
    /\ tx' = NoTx
    /\ reply' = RotReply("err")
    /\ items' = <<>>
    /\ idx' = 0
    /\ new_key' = NoKey
    /\ interfered' = FALSE
    /\ stderr' = stderr \cup {new_key}
    /\ UNCHANGED <<accounts, keyring, master_key, effects>>

\* an early return of rotate_keys through `?`: the transaction, if open, is
\* dropped and so rolled back
rotate_keys_fails ==
    /\ pc' = "idle"
    /\ tx' = NoTx
    /\ reply' = RotReply("err")
    /\ items' = <<>>
    /\ idx' = 0
    /\ new_key' = NoKey
    /\ interfered' = FALSE
    /\ UNCHANGED <<accounts, keyring, master_key, stderr, effects>>

\* rotate_keys, lines 332-343: open the transaction, read the rows, generate
\* the new key
rotate_keys_begin ==
    /\ UNCHANGED mcpVars
    /\ pc = "idle"
    /\ keysMade < MaxKeys
    /\ interfered' = FALSE
    /\ UNCHANGED <<machines, constraints, accounts, nextMachineId, nextAccountId, keyring,
                   master_key, stderr, reg, gpc, genc, listed, starts, migrations,
                   migrated>>
    /\ \/ \* get_conn, transaction or the SELECT fails
          /\ pc' = "idle"
          /\ reply' = RotReply("err")
          /\ effects' = <<>>
          /\ UNCHANGED <<items, idx, new_key, tx, keysMade>>
       \/ /\ items' = SelectCredentials(accounts)
          /\ idx' = 1
          /\ tx' = [open |-> TRUE, staged |-> <<>>]
          /\ keysMade' = keysMade + 1
          /\ new_key' = keysMade + 1
          /\ effects' = <<>>
          /\ pc' = "rot_loop"
          /\ UNCHANGED reply

\* mutant: the row is encrypted again under the key it was read with
rotate_new_credential_old_key(plaintext) == Encrypt(master_key, plaintext)

\* mutant: the new key itself is written to the row
rotate_new_credential_stores_key(plaintext) == KeyMaterial(new_key)

\* rotate_keys, line 356: the recovered plaintext under the new key
rotate_new_credential(plaintext) == Encrypt(new_key, plaintext)

\* mutant: a row that does not decrypt is skipped and the loop goes on
rotate_keys_row_skips_undecryptable ==
    /\ UNCHANGED mcpVars
    /\ pc = "rot_loop"
    /\ idx <= Len(items)
    /\ UNCHANGED <<machines, constraints, nextMachineId, nextAccountId,
                   keysMade, reg, gpc, genc, listed, starts, migrations,
                   migrated>>
    /\ LET id == items[idx].id
           plaintext == Decrypt(master_key, items[idx].credential)
       IN  IF ~plaintext.ok
           THEN /\ idx' = idx + 1
                /\ UNCHANGED <<accounts, tx, pc, reply, keyring, master_key,
                               stderr, effects, items, new_key, interfered>>
           ELSE \/ rotate_keys_fails
                \/ /\ tx_execute(id, rotate_new_credential(plaintext.value))
                   /\ idx' = idx + 1
                   /\ UNCHANGED <<pc, reply, keyring, master_key, stderr,
                                  effects, items, new_key, interfered>>

\* rotate_keys, lines 348-363: one iteration of the loop
rotate_keys_row ==
    /\ UNCHANGED mcpVars
    /\ pc = "rot_loop"
    /\ idx <= Len(items)
    /\ UNCHANGED <<machines, constraints, nextMachineId, nextAccountId,
                   keysMade, reg, gpc, genc, listed, starts, migrations,
                   migrated>>
    /\ LET id == items[idx].id
           plaintext == Decrypt(master_key, items[idx].credential)
       IN  IF ~plaintext.ok
           THEN rotate_keys_fails
           ELSE \/ \* encrypt or the UPDATE fails
                   rotate_keys_fails
                \/ /\ tx_execute(id, rotate_new_credential(plaintext.value))
                   /\ idx' = idx + 1
                   /\ UNCHANGED <<pc, reply, keyring, master_key, stderr,
                                  effects, items, new_key, interfered>>

\* rotate_keys, lines 367-368: commit the transaction
rotate_keys_commit ==
    /\ UNCHANGED mcpVars
    /\ pc = "rot_loop"
    /\ idx > Len(items)
    /\ UNCHANGED <<machines, constraints, nextMachineId, nextAccountId,
                   keysMade, reg, gpc, genc, listed, starts, migrations>>
    /\ \/ rotate_keys_fails /\ UNCHANGED migrated
       \/ /\ accounts' = CommitStaged(accounts, tx.staged)
          /\ migrated' = NeverMigrated
          /\ tx' = NoTx
          /\ effects' = Append(effects, "commit")
          /\ pc' = "rot_keyring"
          /\ UNCHANGED <<reply, keyring, master_key, stderr, items, idx,
                         new_key, interfered>>

\* mutant: the result of store_secret is ignored and the key swapped anyway
rotate_keys_store_secret_unchecked ==
    /\ UNCHANGED mcpVars
    /\ pc = "rot_keyring"
    /\ UNCHANGED <<machines, constraints, accounts, nextMachineId,
                   nextAccountId, keysMade, reg, gpc, genc, listed, starts,
                   migrations, migrated, tx, master_key, reply, stderr, items,
                   idx, new_key, interfered>>
    /\ pc' = "rot_swap"
    /\ \/ UNCHANGED <<keyring, effects>>
       \/ /\ keyring' = new_key
          /\ effects' = Append(effects, "keyring")

\* mutant: a failed store_secret returns the error without printing the key
rotate_keys_store_secret_silent ==
    /\ UNCHANGED mcpVars
    /\ pc = "rot_keyring"
    /\ UNCHANGED <<machines, constraints, accounts, nextMachineId,
                   nextAccountId, keysMade, reg, gpc, genc, listed, starts,
                   migrations, migrated, tx, master_key, stderr>>
    /\ \/ /\ reply' = RotReply("err")
          /\ pc' = "idle"
          /\ items' = <<>>
          /\ idx' = 0
          /\ new_key' = NoKey
          /\ interfered' = FALSE
          /\ UNCHANGED <<keyring, effects>>
       \/ /\ keyring' = new_key
          /\ effects' = Append(effects, "keyring")
          /\ pc' = "rot_swap"
          /\ UNCHANGED <<reply, items, idx, new_key, interfered>>

\* rotate_keys, lines 371-376: write the new key to the keyring; on failure
\* print it and return the error
rotate_keys_store_secret ==
    /\ UNCHANGED mcpVars
    /\ pc = "rot_keyring"
    /\ UNCHANGED <<machines, constraints, accounts, nextMachineId, nextAccountId, keysMade,
                   reg, gpc, genc, listed, starts, migrations, migrated, tx,
                   master_key>>
    /\ \/ /\ stderr' = stderr \cup {new_key}
          /\ reply' = RotReply("err")
          /\ pc' = "idle"
          /\ items' = <<>>
          /\ idx' = 0
          /\ new_key' = NoKey
          /\ interfered' = FALSE
          /\ UNCHANGED <<keyring, effects>>
       \/ /\ keyring' = new_key
          /\ effects' = Append(effects, "keyring")
          /\ pc' = "rot_swap"
          /\ UNCHANGED <<reply, stderr, items, idx, new_key, interfered>>

\* rotate_keys, lines 379-382: replace the in-memory key and return Ok
rotate_keys_swap ==
    /\ UNCHANGED mcpVars
    /\ pc = "rot_swap"
    /\ RwLock_write
    /\ master_key' = new_key
    /\ effects' = Append(effects, "swap")
    /\ reply' = RotReply("ok")
    /\ pc' = "idle"
    /\ items' = <<>>
    /\ idx' = 0
    /\ new_key' = NoKey
    /\ interfered' = FALSE
    /\ UNCHANGED <<machines, constraints, accounts, nextMachineId,
                   nextAccountId, keyring, keysMade, stderr, reg, gpc, genc,
                   listed, starts, migrations, migrated, tx>>

\* ------------------------------------------------- registry operations
\* mutant: the credential is stored as supplied
add_account_plain(account) == account

\* add_account, lines 202-206: the credential is encrypted under the active
\* key before the row is written
add_account_encrypt(account) ==
    [account EXCEPT !.credential = Encrypt(master_key, account.credential)]

\* mutant: the stored credential is returned
list_accounts_unmasked(accts) ==
    {[id |-> id, machine_id |-> accts[id].machine_id,
      credential |-> accts[id].credential] : id \in DOMAIN accts}

\* list_accounts, lines 243-261: every row with its credential masked
list_accounts(accts) ==
    {[id |-> id, machine_id |-> accts[id].machine_id,
      credential |-> Plain(SENTINEL)] : id \in DOMAIN accts}

\* mutant: the name column is not declared UNIQUE
NameTaken_never(name) == FALSE

\* init_schema, line 116: name TEXT NOT NULL UNIQUE
NameTaken(name) == \E m \in machines : m.name = name

\* the store enforces the foreign keys its schema declares
ForeignKeysEnforced == TRUE

\* mutant: the accounts table is created without the foreign key
accounts_machine_id_unconstrained(ms, machine_id) == TRUE

\* init_schema, line 141: FOREIGN KEY(machine_id) REFERENCES machines(id)
accounts_machine_id_references(ms, machine_id) ==
    \E m \in ms : m.id = machine_id

\* whether the INSERT of an account for `machine_id` is accepted
ForeignKeyHolds(ms, machine_id) ==
    ForeignKeysEnforced => accounts_machine_id_references(ms, machine_id)

\* init_schema, lines 141 and 166: rows of accounts or constraints refer to
\* the machine, which then cannot be deleted
MachineReferenced(accts, cons, machine_id) ==
    /\ ForeignKeysEnforced
    /\ \/ \E a \in DOMAIN accts : accts[a].machine_id = machine_id
       \/ \E c \in cons : c.machine_id = machine_id

\* mutant: the machine is stored with another status
NewMachine_in_maintenance(name) ==
    [id |-> nextMachineId, name |-> name, status |-> "maintenance"]

\* add_machine called with status "active" (main.rs:276, onboarding.rs)
NewMachine(name) == [id |-> nextMachineId, name |-> name, status |-> "active"]

RegReply(status) == [op |-> "register_machine", status |-> status, value |-> Text(0)]

\* handle_register_machine_sync, lines 258-281: the machine's fields are
\* read, then add_machine inserts the row (name is UNIQUE)
register_machine_add_machine ==
    /\ UNCHANGED mcpVars
    /\ pc = "idle"
    /\ UNCHANGED <<accounts, constraints, nextAccountId, keyring, master_key, keysMade,
                   stderr, items, idx, new_key, tx, gpc, genc, listed, starts,
                   migrations, interfered, migrated>>
    /\ effects' = <<>>
    /\ \E name \in MachineNames, credential \in PlainTexts,
          missing \in {"none", "machine", "account"} :
          \/ \* a machine field is missing, or add_machine fails (the
             \* name is taken, or the database fails)
             /\ reply' = RegReply("err")
             /\ UNCHANGED <<machines, nextMachineId, pc, reg>>
          \/ /\ missing # "machine"
             /\ ~NameTaken(name)
             /\ nextMachineId <= MaxMachines
             /\ machines' = machines \cup {NewMachine(name)}
             /\ nextMachineId' = nextMachineId + 1
             /\ reg' = [machine_id |-> nextMachineId,
                        credential |-> Plain(credential), missing |-> missing]
             /\ pc' = "reg_account"
             /\ UNCHANGED reply

\* mutant: a failed account creation deletes the machine just added
register_machine_add_account_rolls_back ==
    /\ UNCHANGED mcpVars
    /\ pc = "reg_account"
    /\ pc' = "idle"
    /\ reg' = NoArgs
    /\ UNCHANGED <<constraints, nextMachineId, keyring, master_key, keysMade,
                   stderr, items, idx, new_key, tx, gpc, genc, listed, starts,
                   migrations, effects, interfered>>
    /\ \/ /\ reply' = RegReply("err")
          /\ machines' = {m \in machines : m.id # reg.machine_id}
          /\ UNCHANGED <<accounts, nextAccountId, migrated>>
       \/ /\ reg.missing = "none"
          /\ nextAccountId <= MaxAccounts
          /\ ForeignKeyHolds(machines, reg.machine_id)
          /\ migrated' = NeverMigrated
          /\ LET account == add_account_encrypt(
                     [machine_id |-> reg.machine_id, credential |-> reg.credential])
             IN  accounts' = InsertRow(accounts, nextAccountId, account)
          /\ nextAccountId' = nextAccountId + 1
          /\ reply' = [RegReply("ok") EXCEPT !.value = Text(reg.machine_id)]
          /\ UNCHANGED machines

\* handle_register_machine_sync, lines 283-296: the account's fields are
\* read, then add_account encrypts the credential and inserts the row
register_machine_add_account ==
    /\ UNCHANGED mcpVars
    /\ pc = "reg_account"
    /\ pc' = "idle"
    /\ reg' = NoArgs
    /\ UNCHANGED <<machines, constraints, nextMachineId, keyring, master_key, keysMade,
                   stderr, items, idx, new_key, tx, gpc, genc, listed, starts,
                   migrations, effects, interfered>>
    /\ \/ \* an account field is missing, or add_account fails
          /\ reply' = RegReply("err")
          /\ UNCHANGED <<accounts, nextAccountId, migrated>>
       \/ /\ reg.missing = "none"
          /\ nextAccountId <= MaxAccounts
          /\ ForeignKeyHolds(machines, reg.machine_id)
          /\ migrated' = NeverMigrated
          /\ LET account == add_account_encrypt(
                     [machine_id |-> reg.machine_id, credential |-> reg.credential])
             IN  accounts' = InsertRow(accounts, nextAccountId, account)
          /\ nextAccountId' = nextAccountId + 1
          /\ reply' = [RegReply("ok") EXCEPT !.value = Text(reg.machine_id)]

\* ------------------------------------------------------- the GUI thread
\* onboarding.rs, lines 34-44: the wizard adds the machine it configured
gui_add_machine ==
    /\ UNCHANGED mcpVars
    /\ gpc = "idle"
    /\ UNCHANGED <<accounts, constraints, nextAccountId, keyring, master_key, keysMade,
                   stderr, pc, items, idx, new_key, tx, reply, reg, listed,
                   starts, migrations, effects, interfered, migrated>>
    /\ \E name \in MachineNames :
          \/ UNCHANGED <<machines, nextMachineId, gpc, genc>>
          \/ /\ ~NameTaken(name)
             /\ nextMachineId <= MaxMachines
             /\ machines' = machines \cup {NewMachine(name)}
             /\ nextMachineId' = nextMachineId + 1
             /\ genc' = [id |-> 0, machine_id |-> nextMachineId,
                         credential |-> Plain(TPM_CREDENTIAL)]
             /\ gpc' = "onb_encrypt"

\* add_account called by the wizard, lines 202-206: the key is read under
\* the shared lock, which is released before the row is written
gui_add_account_encrypt ==
    /\ UNCHANGED mcpVars
    /\ gpc = "onb_encrypt"
    /\ RwLock_read
    /\ UNCHANGED <<machines, constraints, accounts, nextMachineId, nextAccountId, keyring,
                   master_key, keysMade, stderr, pc, items, idx, new_key, tx,
                   reply, reg, listed, starts, migrations, effects, interfered,
                   migrated>>
    /\ \/ /\ gpc' = "idle"
          /\ genc' = NoRow
       \/ /\ genc' = [add_account_encrypt(genc) EXCEPT !.id = nextAccountId]
          /\ gpc' = "onb_insert"

\* add_account called by the wizard, lines 208-219, then app.refresh(): the
\* INSERT waits while another connection's transaction holds the database
gui_add_account_insert ==
    /\ UNCHANGED mcpVars
    /\ gpc = "onb_insert"
    /\ gpc' = "idle"
    /\ genc' = NoRow
    /\ UNCHANGED <<machines, constraints, nextMachineId, keyring, master_key, keysMade,
                   stderr, pc, items, idx, new_key, tx, reply, reg, starts,
                   migrations, effects>>
    /\ \/ UNCHANGED <<accounts, nextAccountId, listed, interfered, migrated>>
       \/ /\ ~tx.open
          /\ nextAccountId <= MaxAccounts
          /\ ForeignKeyHolds(machines, genc.machine_id)
          /\ migrated' = NeverMigrated
          /\ accounts' = InsertRow(accounts, nextAccountId,
                 [machine_id |-> genc.machine_id, credential |-> genc.credential])
          /\ nextAccountId' = nextAccountId + 1
          /\ listed' = list_accounts(accounts')
          /\ interfered' = (interfered \/ pc \in RotStates)

\* ManagerApp::refresh, gui/mod.rs lines 119-128
gui_refresh ==
    /\ UNCHANGED mcpVars
    /\ gpc = "idle"
    /\ listed' = list_accounts(accounts)
    /\ UNCHANGED <<machines, constraints, accounts, nextMachineId, nextAccountId, keyring,
                   master_key, keysMade, stderr, pc, items, idx, new_key, tx,
                   reply, reg, gpc, genc, starts, migrations, effects,
                   interfered, migrated>>

\* ------------------------------ other callers of the shared DbHandler
Restrict(accts, ids) == [id \in ids |-> accts[id]]

\* the rows the second thread's calls are aimed at
ApiAccountIds == {1}
ApiMachineIds == {1}

\* update_account_credential, lines 264-267: the key is read under the
\* shared lock and the new credential encrypted
update_account_credential_encrypt ==
    /\ UNCHANGED mcpVars
    /\ gpc = "idle"
    /\ RwLock_read
    /\ UNCHANGED <<machines, constraints, accounts, nextMachineId,
                   nextAccountId, keyring, master_key, keysMade, stderr, pc,
                   items, idx, new_key, tx, reply, reg, listed, starts,
                   migrations, effects, interfered, migrated>>
    /\ \E account_id \in ApiAccountIds, new_credential \in {"s3cret"} :
          \/ UNCHANGED <<gpc, genc>>
          \/ /\ genc' = [id |-> account_id, machine_id |-> 0,
                         credential |-> Encrypt(master_key, Plain(new_credential))]
             /\ gpc' = "upd_write"

\* mutant: the UPDATE takes effect while another connection's transaction
\* is open
update_account_credential_write_ignores_lock ==
    /\ UNCHANGED mcpVars
    /\ gpc = "upd_write"
    /\ gpc' = "idle"
    /\ genc' = NoRow
    /\ UNCHANGED <<machines, constraints, nextMachineId, nextAccountId, keyring,
                   master_key, keysMade, stderr, pc, items, idx, new_key, tx,
                   reply, reg, listed, starts, migrations, effects>>
    /\ \/ UNCHANGED <<accounts, interfered, migrated>>
       \/ /\ migrated' = NeverMigrated
          /\ accounts' = CommitStaged(accounts, genc.id :> genc.credential)
          /\ interfered' = (interfered \/ pc \in RotStates)

\* update_account_credential, lines 269-274: the row, if it exists, is
\* overwritten
update_account_credential_write ==
    /\ UNCHANGED mcpVars
    /\ gpc = "upd_write"
    /\ gpc' = "idle"
    /\ genc' = NoRow
    /\ UNCHANGED <<machines, constraints, nextMachineId, nextAccountId, keyring,
                   master_key, keysMade, stderr, pc, items, idx, new_key, tx,
                   reply, reg, listed, starts, migrations, effects>>
    /\ \/ UNCHANGED <<accounts, interfered, migrated>>
       \/ /\ ~tx.open
          /\ migrated' = NeverMigrated
          /\ accounts' = CommitStaged(accounts, genc.id :> genc.credential)
          /\ interfered' = (interfered \/ pc \in RotStates)

\* delete_machine, line 194: the accounts of the machine are deleted
delete_machine_accounts ==
    /\ UNCHANGED mcpVars
    /\ gpc = "idle"
    /\ UNCHANGED <<machines, constraints, nextMachineId, nextAccountId, keyring,
                   master_key, keysMade, stderr, pc, items, idx, new_key, tx,
                   reply, reg, listed, starts, migrations, effects>>
    /\ \E id \in ApiMachineIds :
          \/ UNCHANGED <<accounts, interfered, gpc, genc, migrated>>
          \/ /\ ~tx.open
             /\ migrated' = NeverMigrated
             /\ accounts' = Restrict(accounts,
                    {a \in DOMAIN accounts : accounts[a].machine_id # id})
             /\ interfered' = (interfered \/ pc \in RotStates)
             /\ genc' = [NoRow EXCEPT !.machine_id = id]
             /\ gpc' = "del_constraints"

\* mutant: the constraints of the machine are left in place
delete_machine_constraints_skipped ==
    /\ UNCHANGED mcpVars
    /\ gpc = "del_constraints"
    /\ UNCHANGED <<machines, accounts, nextMachineId, nextAccountId, keyring,
                   master_key, keysMade, stderr, pc, items, idx, new_key, tx,
                   reply, reg, listed, starts, migrations, effects, interfered,
                   migrated>>
    /\ \/ /\ gpc' = "idle"
          /\ genc' = NoRow
          /\ UNCHANGED constraints
       \/ /\ ~tx.open
          /\ gpc' = "del_machine"
          /\ UNCHANGED <<genc, constraints>>

\* delete_machine, line 195: the constraints of the machine are deleted
delete_machine_constraints ==
    /\ UNCHANGED mcpVars
    /\ gpc = "del_constraints"
    /\ UNCHANGED <<machines, accounts, nextMachineId, nextAccountId, keyring,
                   master_key, keysMade, stderr, pc, items, idx, new_key, tx,
                   reply, reg, listed, starts, migrations, effects, interfered,
                   migrated>>
    /\ \/ /\ gpc' = "idle"
          /\ genc' = NoRow
          /\ UNCHANGED constraints
       \/ /\ ~tx.open
          /\ constraints' = {c \in constraints : c.machine_id # genc.machine_id}
          /\ gpc' = "del_machine"
          /\ UNCHANGED genc

\* delete_machine, lines 196-197: the machine row is deleted
delete_machine_row ==
    /\ UNCHANGED mcpVars
    /\ gpc = "del_machine"
    /\ gpc' = "idle"
    /\ genc' = NoRow
    /\ UNCHANGED <<accounts, constraints, nextMachineId, nextAccountId, keyring,
                   master_key, keysMade, stderr, pc, items, idx, new_key, tx,
                   reply, reg, listed, starts, migrations, effects, interfered,
                   migrated>>
    /\ \/ UNCHANGED machines
       \/ /\ ~tx.open
          /\ ~MachineReferenced(accounts, constraints, genc.machine_id)
          /\ machines' = {m \in machines : m.id # genc.machine_id}

Next ==
    \/ DbHandler_new
    \/ migrate_credentials_begin
    \/ migrate_credentials_row
    \/ migrate_credentials_commit
    \/ rotate_keys_begin
    \/ rotate_keys_row
    \/ rotate_keys_commit
    \/ rotate_keys_store_secret
    \/ rotate_keys_swap
    \/ register_machine_add_machine
    \/ register_machine_add_account
    \/ gui_add_machine
    \/ gui_add_account_encrypt
    \/ gui_add_account_insert
    \/ gui_refresh
    \/ ProcessExit

Spec == Init /\ [][Next]_vars

\* the protocol thread together with a second thread that calls
\* update_account_credential and delete_machine on the shared DbHandler
NextApi ==
    \/ DbHandler_new
    \/ migrate_credentials_begin
    \/ migrate_credentials_row
    \/ migrate_credentials_commit
    \/ rotate_keys_begin
    \/ rotate_keys_row
    \/ rotate_keys_commit
    \/ rotate_keys_store_secret
    \/ rotate_keys_swap
    \/ register_machine_add_machine
    \/ register_machine_add_account
    \/ ProcessExit
    \/ update_account_credential_encrypt
    \/ update_account_credential_write
    \/ delete_machine_accounts
    \/ delete_machine_constraints
    \/ delete_machine_row

SpecApi == Init /\ [][NextApi]_vars

\* ------------------------------------------------- the protocol loop
\* the lines of input and requests taken per run of the model
MaxLines == 2

RequestIds == {NoId, 1}

\* "other" stands for every method handle_request_sync does not recognise
Methods == {"initialize", "notifications/initialized", "tools/list",
            "tools/call", "other"}

\* main.rs:195-218, the tools described by tools/list, in order, each with
\* the required members of its inputSchema
Tools ==
    <<[name |-> "register_machine",
       required |-> {"name", "ip_address", "purpose", "ownership", "os_type",
                     "username", "auth_type", "credential"}],
      [name |-> "list_machines", required |-> {}],
      [name |-> "diagnose_connection", required |-> {"machine_id"}],
      [name |-> "rotate_keys", required |-> {}]>>

ToolNames == {Tools[i].name : i \in 1..Len(Tools)}

\* params.name: a tool's name, another string, or "none" (absent, not a string)
CallNames == ToolNames \cup {"unknown_tool", "none"}

\* the lines that parse as a JsonRpcRequest; params, and its members name
\* and arguments, are read only by tools/call
Requests ==
    {r \in [id : RequestIds, method : Methods, params : BOOLEAN,
            name : CallNames, arguments : BOOLEAN] :
        /\ r.method # "tools/call" => ~r.params
        /\ ~r.params => (r.name = "none" /\ ~r.arguments)}

\* the -32603 error object built at main.rs:251
ErrorObject == [kind |-> "error", n |-> -32603, tools |-> <<>>]

\* serde_json::to_string of an Option<Value> member of JsonRpcResponse:
\* None is written as null, and so is Some(Value::Null)
Serialize(option) == IF option.some THEN option.value ELSE JsonNull

Some(v) == [some |-> TRUE, value |-> v]
None == [some |-> FALSE, value |-> JsonNull]

\* mutant: the response does not carry the request's id
JsonRpcResponse_without_id(request, result) ==
    IF result.status = "ok"
    THEN [id |-> NoId, result |-> Some(result.value), error |-> None]
    ELSE [id |-> NoId, result |-> None, error |-> Some(ErrorObject)]

\* handle_request_sync, lines 241-254: the JsonRpcResponse built from the
\* handler's Result
JsonRpcResponse(request, result) ==
    IF result.status = "ok"
    THEN [id |-> request.id, result |-> Some(result.value), error |-> None]
    ELSE [id |-> request.id, result |-> None, error |-> Some(ErrorObject)]

\* the line println! writes at main.rs:177-178
ResponseLine(response) ==
    [id |-> response.id, result |-> Serialize(response.result),
     error |-> Serialize(response.error)]

\* mutant: every tool is dispatched on its name alone
Dispatch_on_name_alone(r) ==
    IF r.method # "tools/call" \/ ~r.params THEN "none"
    ELSE IF r.name \in ToolNames THEN r.name ELSE "none"

\* handle_request_sync, lines 223-233: the tool handler a request is
\* dispatched to ("none": no handler runs)
Dispatch(r) ==
    IF r.method # "tools/call" \/ ~r.params THEN "none"
    ELSE CASE r.name = "register_machine" /\ r.arguments -> "register_machine"
           [] r.name = "list_machines" -> "list_machines"
           [] r.name = "diagnose_connection" /\ r.arguments -> "diagnose_connection"
           [] r.name = "rotate_keys" -> "rotate_keys"
           [] OTHER -> "none"

\* mutant: the description depends on what has been handled before
MethodResult_by_history(r) ==
    CASE r.method = "initialize" ->
            [op |-> r.method, status |-> "ok",
             value |-> [kind |-> "serverInfo", n |-> 0, tools |-> <<>>]]
      [] r.method = "notifications/initialized" ->
            [op |-> r.method, status |-> "ok", value |-> JsonNull]
      [] r.method = "tools/list" ->
            [op |-> r.method, status |-> "ok",
             value |-> [kind |-> "tools", n |-> Len(Tools),
                        tools |-> IF stdout = <<>> THEN Tools ELSE Tail(Tools)]]
      [] OTHER -> [op |-> r.method, status |-> "err", value |-> Text(0)]

\* handle_request_sync, lines 188-238: the Result of a request that no tool
\* handler serves
MethodResult(r) ==
    CASE r.method = "initialize" ->
            [op |-> r.method, status |-> "ok",
             value |-> [kind |-> "serverInfo", n |-> 0, tools |-> <<>>]]
      [] r.method = "notifications/initialized" ->
            [op |-> r.method, status |-> "ok", value |-> JsonNull]
      [] r.method = "tools/list" ->
            [op |-> r.method, status |-> "ok",
             value |-> [kind |-> "tools", n |-> Len(Tools), tools |-> Tools]]
      [] OTHER -> [op |-> r.method, status |-> "err", value |-> Text(0)]

storeVars == <<machines, accounts, constraints, nextMachineId, nextAccountId>>
keyVars == <<keyring, master_key, keysMade, stderr>>

\* list_machines: every row of the table, unfiltered
list_machines(ms) == ms

\* main, line 127, and handle_diagnose_connection, line 324: the texts
\* given to println!
Banner == "Running in headless MCP mode..."

Diagnosing == "Diagnosing connection to {}..."

\* println!: a line of text, with the target it names if any, is written to
\* the standard output after the response lines written so far
println(text, target) ==
    Append(printed, [text |-> text, target |-> target,
                     after |-> Len(stdout), start |-> starts])

\* main, lines 126-128, has printed the banner and called run_mcp_loop
LoopEntered ==
    \E i \in DOMAIN printed :
       printed[i].text = Banner /\ printed[i].start = starts

\* main, lines 126-128, the mcp subcommand: once DbHandler::new has
\* returned the banner is printed and run_mcp_loop is called
main_mcp ==
    /\ pc = "idle"
    /\ ~LoopEntered
    /\ printed' = println(Banner, 0)
    /\ UNCHANGED <<storeVars, keyVars, pc, items, idx, new_key, tx, reply, reg,
                   gpc, genc, listed, starts, migrations, effects, interfered,
                   migrated, req, stdin, stdout, diag, loads>>

\* mutant: the next line is read while a request is still being handled
run_mcp_loop_read_ahead ==
    /\ pc = "idle"
    /\ LoopEntered
    /\ Len(stdin) < MaxLines
    /\ UNCHANGED <<storeVars, keyVars, pc, items, idx, new_key, tx, reg, gpc,
                   genc, listed, starts, migrations, effects, interfered,
                   migrated, stdout, diag, loads, printed>>
    /\ \/ /\ stdin' = Append(stdin, [parsed |-> FALSE, id |-> NoId])
          /\ UNCHANGED <<req, reply>>
       \/ \E r \in Requests :
             /\ stdin' = Append(stdin, [parsed |-> TRUE, id |-> r.id])
             /\ req' = r
             /\ reply' = NoReply

\* run_mcp_loop, lines 166-173: a line is read and parsed; one that is not
\* a request is dropped, a request is handed to handle_request_sync
run_mcp_loop_read ==
    /\ pc = "idle"
    /\ LoopEntered
    /\ req = NoReq
    /\ Len(stdin) < MaxLines
    /\ UNCHANGED <<storeVars, keyVars, pc, items, idx, new_key, tx, reg, gpc,
                   genc, listed, starts, migrations, effects, interfered,
                   migrated, stdout, diag, loads, printed>>
    /\ \/ /\ stdin' = Append(stdin, [parsed |-> FALSE, id |-> NoId])
          /\ UNCHANGED <<req, reply>>
       \/ \E r \in Requests :
             /\ stdin' = Append(stdin, [parsed |-> TRUE, id |-> r.id])
             /\ req' = r
             /\ reply' = NoReply

\* run_mcp_loop, line 166: read_line returns an error (the bytes of the line
\* are not valid UTF-8, or the stream fails); `?` returns it, the loop is
\* over and main returns
run_mcp_loop_read_fails ==
    /\ pc = "idle"
    /\ LoopEntered
    /\ req = NoReq
    /\ Len(stdin) < MaxLines
    /\ stdin' = Append(stdin, [parsed |-> FALSE, id |-> NoId])
    /\ ProcessEnds
    /\ reply' = NoReply
    /\ loads' = 0
    /\ UNCHANGED <<storeVars, keyring, keysMade, stderr, starts, migrations,
                   migrated, req, stdout, diag, printed>>

\* run_mcp_loop, lines 166 and 183: read_line returns 0 at the end of the
\* input, the loop is over and main returns
run_mcp_loop_eof ==
    /\ pc = "idle"
    /\ LoopEntered
    /\ req = NoReq
    /\ ProcessEnds
    /\ reply' = NoReply
    /\ loads' = 0
    /\ UNCHANGED <<storeVars, keyring, keysMade, stderr, starts, migrations,
                   migrated, req, stdin, stdout, diag, printed>>

\* handle_request_sync, lines 188-238, for a request no tool handler serves
handle_request_sync ==
    /\ pc = "idle"
    /\ req # NoReq
    /\ reply = NoReply
    /\ Dispatch(req) = "none"
    /\ reply' = MethodResult(req)
    /\ UNCHANGED <<storeVars, keyVars, pc, items, idx, new_key, tx, reg, gpc,
                   genc, listed, starts, migrations, effects, interfered,
                   migrated, mcpVars>>

\* handle_request_sync, lines 224-226
handle_register_machine_sync ==
    /\ req # NoReq
    /\ reply = NoReply
    /\ Dispatch(req) = "register_machine"
    /\ register_machine_add_machine

\* handle_request_sync, line 231, and handle_rotate_keys
handle_rotate_keys ==
    /\ req # NoReq
    /\ reply = NoReply
    /\ Dispatch(req) = "rotate_keys"
    /\ rotate_keys_begin

\* handle_list_machines_sync, lines 299-302
handle_list_machines_sync ==
    /\ pc = "idle"
    /\ req # NoReq
    /\ reply = NoReply
    /\ Dispatch(req) = "list_machines"
    /\ \/ reply' = [op |-> "list_machines", status |-> "err", value |-> Text(0)]
       \/ reply' = [op |-> "list_machines", status |-> "ok",
                    value |-> [kind |-> "machines",
                               n |-> Cardinality(list_machines(machines)),
                               tools |-> <<>>]]
    /\ UNCHANGED <<storeVars, keyVars, pc, items, idx, new_key, tx, reg, gpc,
                   genc, listed, starts, migrations, effects, interfered,
                   migrated, mcpVars>>

\* handle_diagnose_connection, lines 304-374: the machine and its first
\* account are looked up and the probe is run; nothing is written
handle_diagnose_connection ==
    /\ pc = "idle"
    /\ req # NoReq
    /\ reply = NoReply
    /\ Dispatch(req) = "diagnose_connection"
    /\ \E machine_id \in 0..MaxMachines :
          LET err == [op |-> "diagnose_connection", status |-> "err",
                      value |-> Text(0)]
              ok == [op |-> "diagnose_connection", status |-> "ok",
                     value |-> Text(0)]
          IN  \/ \* machine_id is missing, the machine or its account is
                 \* not found, or the store fails
                 /\ reply' = err
                 /\ UNCHANGED <<loads, printed>>
              \/ /\ \E m \in list_machines(machines) : m.id = machine_id
                 /\ \E a \in list_accounts(accounts) : a.machine_id = machine_id
                 \* line 324
                 /\ printed' = println(Diagnosing, machine_id)
                 /\ \/ \* the probe cannot be spawned
                       reply' = err /\ loads' = loads
                    \/ \* the probe exits successfully
                       reply' = ok /\ loads' = loads
                    \/ \* the probe exits unsuccessfully: the knowledge
                       \* base is loaded and the diagnosis returned
                       reply' = ok /\ loads' = loads + 1
    /\ UNCHANGED <<storeVars, keyVars, pc, items, idx, new_key, tx, reg, gpc,
                   genc, listed, starts, migrations, effects, interfered,
                   migrated, req, stdin, stdout, diag>>

\* run_mcp_loop, lines 176-181: the handler has returned, the response is
\* written and the line buffer cleared
run_mcp_loop_write ==
    /\ pc = "idle"
    /\ req # NoReq
    /\ reply # NoReply
    /\ stdout' = Append(stdout, ResponseLine(JsonRpcResponse(req, reply)))
    /\ req' = NoReq
    /\ diag' = NoDiag
    /\ UNCHANGED <<storeVars, keyVars, pc, items, idx, new_key, tx, reply, reg,
                   gpc, genc, listed, starts, migrations, effects, interfered,
                   migrated, stdin, loads, printed>>

\* the program run as a headless protocol server (the Mcp command)
NextMcp ==
    \/ DbHandler_new
    \/ migrate_credentials_begin
    \/ migrate_credentials_row
    \/ migrate_credentials_commit
    \/ main_mcp
    \/ run_mcp_loop_read
    \/ run_mcp_loop_read_fails
    \/ run_mcp_loop_eof
    \/ handle_request_sync
    \/ handle_register_machine_sync
    \/ register_machine_add_account
    \/ handle_list_machines_sync
    \/ handle_diagnose_connection
    \/ handle_rotate_keys
    \/ rotate_keys_row
    \/ rotate_keys_commit
    \/ rotate_keys_store_secret
    \/ rotate_keys_swap
    \/ run_mcp_loop_write

SpecMcp == Init /\ [][NextMcp]_vars

\* ------------------------------------------------ connection diagnosis
\* the longest knowledge base drawn
MaxPatterns == 2

\* what the failed probe wrote to its standard error
Stderrs == {"Permission denied (publickey)", "Connection timed out",
            "Connection refused"}

\* regex::Regex::new: a pattern compiles to the set of texts it matches
\* (here among Stderrs), or does not compile
Regex_new(pattern) ==
    CASE pattern = "Permission denied" ->
             [ok |-> TRUE, matches |-> {"Permission denied (publickey)"}]
      [] pattern = "Connection (timed out|refused)" ->
             [ok |-> TRUE,
              matches |-> {"Connection timed out", "Connection refused"}]
      [] pattern = "denied|timed out" ->
             [ok |-> TRUE, matches |-> {"Permission denied (publickey)",
                                        "Connection timed out"}]
      [] OTHER -> [ok |-> FALSE, matches |-> {}]

\* Suggestion records are named by a positive number; None is 0
NoSuggestion == 0

\* the Pattern records a knowledge base may hold; the fourth does not
\* compile
Patterns ==
    {[id |-> "WIN_SSH_ACL_DENIED", pattern |-> "Permission denied",
      suggestion |-> 1],
     [id |-> "NET_UNREACHABLE", pattern |-> "Connection (timed out|refused)",
      suggestion |-> 2],
     [id |-> "GENERIC", pattern |-> "denied|timed out", suggestion |-> 3],
     [id |-> "BROKEN", pattern |-> "Connection (refused", suggestion |-> 4]}

\* load_troubleshooting_patterns: the list parsed from the first candidate
\* file that reads and parses, or the empty list
PatternLists == UNION {[1..n -> Patterns] : n \in 0..MaxPatterns}

\* match_error_pattern, the loop from position i on
RECURSIVE match_from_last_match(_, _, _)
match_from_last_match(stderr_text, patterns, i) ==
    IF i > Len(patterns) THEN NoSuggestion
    ELSE LET re == Regex_new(patterns[i].pattern)
             later == match_from_last_match(stderr_text, patterns, i + 1)
         IN  IF later # NoSuggestion THEN later
             ELSE IF re.ok /\ stderr_text \in re.matches
                  THEN patterns[i].suggestion
                  ELSE NoSuggestion

RECURSIVE match_from(_, _, _)
match_from(stderr_text, patterns, i) ==
    IF i > Len(patterns) THEN NoSuggestion
    ELSE LET re == Regex_new(patterns[i].pattern)
         IN  IF re.ok /\ stderr_text \in re.matches
             THEN patterns[i].suggestion
             ELSE match_from(stderr_text, patterns, i + 1)

match_error_pattern(stderr_text, patterns) ==
    match_from(stderr_text, patterns, 1)

\* the "data" member of a diagnosis: absent, the empty map, or the map with
\* the suggestion under "agent_hint"
NoData == -1
EmptyData == 0

\* the result of handle_diagnose_connection: kind names the text, n the
\* "data" member
Diagnosis(text, data) == [kind |-> text, n |-> data, tools |-> <<>>]

\* handle_diagnose_connection, lines 317-321: accounts.into_iter().find(..)
\* over the rows in the order of the table; 0 when no row is found
first_account_of(accts, machine_id) ==
    LET found == {a \in accts : a.machine_id = machine_id}
    IN  IF found = {} THEN 0
        ELSE (CHOOSE a \in found : \A b \in found : a.id <= b.id).id

\* mutant: the probe is run for a machine that has no account
handle_diagnose_connection_probe_without_account ==
    /\ pc = "idle"
    /\ req # NoReq
    /\ reply = NoReply
    /\ diag = NoDiag
    /\ Dispatch(req) = "diagnose_connection"
    /\ \E machine_id \in 0..MaxMachines :
          LET account == first_account_of(list_accounts(accounts), machine_id)
              called == [NoDiag EXCEPT !.machine_id = machine_id]
              err == [op |-> "diagnose_connection", status |-> "err",
                      value |-> Text(0)]
          IN  \/ /\ reply' = err
                 /\ diag' = [called EXCEPT !.stage = "rejected"]
                 /\ printed' = printed
              \/ /\ \E m \in list_machines(machines) : m.id = machine_id
                 /\ printed' = println(Diagnosing, machine_id)
                 /\ \/ /\ reply' = err
                       /\ diag' = [called EXCEPT !.stage = "spawn_failed",
                                                 !.account = account]
                    \/ /\ reply' = [op |-> "diagnose_connection",
                                     status |-> "ok",
                                     value |-> Diagnosis("Connection successful",
                                                         NoData)]
                       /\ diag' = [called EXCEPT !.stage = "succeeded",
                                                 !.account = account]
                    \/ \E e \in Stderrs :
                          /\ diag' = [called EXCEPT !.stage = "probed",
                                                    !.account = account,
                                                    !.stderr = e]
                          /\ reply' = reply
    /\ UNCHANGED <<storeVars, keyVars, pc, items, idx, new_key, tx, reg, gpc,
                   genc, listed, starts, migrations, effects, interfered,
                   migrated, req, stdin, stdout, loads>>

\* handle_diagnose_connection, lines 305-346: machine_id is read (0: it is
\* missing), the machine and its first account are looked up and the probe
\* is spawned; diag.stage tells how far the call went
handle_diagnose_connection_probe ==
    /\ pc = "idle"
    /\ req # NoReq
    /\ reply = NoReply
    /\ diag = NoDiag
    /\ Dispatch(req) = "diagnose_connection"
    /\ \E machine_id \in 0..MaxMachines :
          LET account == first_account_of(list_accounts(accounts), machine_id)
              called == [NoDiag EXCEPT !.machine_id = machine_id]
              err == [op |-> "diagnose_connection", status |-> "err",
                      value |-> Text(0)]
          IN  \/ \* machine_id is missing, the machine or its account is
                 \* not found, or the store fails
                 /\ reply' = err
                 /\ diag' = [called EXCEPT !.stage = "rejected"]
                 /\ printed' = printed
              \/ /\ \E m \in list_machines(machines) : m.id = machine_id
                 /\ account # 0
                 \* line 324
                 /\ printed' = println(Diagnosing, machine_id)
                 /\ \/ \* the probe cannot be spawned
                       /\ reply' = err
                       /\ diag' = [called EXCEPT !.stage = "spawn_failed",
                                                 !.account = account]
                    \/ \* the probe exits successfully
                       /\ reply' = [op |-> "diagnose_connection",
                                     status |-> "ok",
                                     value |-> Diagnosis("Connection successful",
                                                         NoData)]
                       /\ diag' = [called EXCEPT !.stage = "succeeded",
                                                 !.account = account]
                    \/ \* the probe exits unsuccessfully
                       \E e \in Stderrs :
                          /\ diag' = [called EXCEPT !.stage = "probed",
                                                    !.account = account,
                                                    !.stderr = e]
                          /\ reply' = reply
    /\ UNCHANGED <<storeVars, keyVars, pc, items, idx, new_key, tx, reg, gpc,
                   genc, listed, starts, migrations, effects, interfered,
                   migrated, req, stdin, stdout, loads>>

\* line 350: load_troubleshooting_patterns reads the knowledge base from
\* the file as it is now
handle_diagnose_connection_load ==
    /\ diag.stage = "probed"
    /\ \E patterns \in PatternLists :
          diag' = [diag EXCEPT !.stage = "loaded", !.patterns = patterns]
    /\ loads' = loads + 1
    /\ UNCHANGED <<storeVars, keyVars, pc, items, idx, new_key, tx, reply, reg,
                   gpc, genc, listed, starts, migrations, effects, interfered,
                   migrated, req, stdin, stdout, printed>>

\* lines 352-373 with the hint member always filled
handle_diagnose_connection_analyze_always_hints ==
    /\ diag.stage = "loaded"
    /\ LET suggestion == match_error_pattern(diag.stderr, diag.patterns)
       IN  reply' = [op |-> "diagnose_connection", status |-> "ok",
                     value |-> IF suggestion # NoSuggestion
                               THEN Diagnosis("AGENT HINT", suggestion)
                               ELSE Diagnosis("No specific troubleshooting hint found",
                                              1)]
    /\ diag' = [diag EXCEPT !.stage = "analyzed"]
    /\ UNCHANGED <<storeVars, keyVars, pc, items, idx, new_key, tx, reg, gpc,
                   genc, listed, starts, migrations, effects, interfered,
                   migrated, req, stdin, stdout, loads, printed>>

\* lines 352-373: the failure is analyzed and the result built
handle_diagnose_connection_analyze ==
    /\ diag.stage = "loaded"
    /\ LET suggestion == match_error_pattern(diag.stderr, diag.patterns)
       IN  reply' = [op |-> "diagnose_connection", status |-> "ok",
                     value |-> IF suggestion # NoSuggestion
                               THEN Diagnosis("AGENT HINT", suggestion)
                               ELSE Diagnosis("No specific troubleshooting hint found",
                                              EmptyData)]
    /\ diag' = [diag EXCEPT !.stage = "analyzed"]
    /\ UNCHANGED <<storeVars, keyVars, pc, items, idx, new_key, tx, reg, gpc,
                   genc, listed, starts, migrations, effects, interfered,
                   migrated, req, stdin, stdout, loads, printed>>

\* run_mcp_loop, lines 166-173, on an input that holds diagnose_connection
\* calls only
run_mcp_loop_read_diagnose ==
    /\ pc = "idle"
    /\ LoopEntered
    /\ req = NoReq
    /\ Len(stdin) < MaxLines
    /\ UNCHANGED <<storeVars, keyVars, pc, items, idx, new_key, tx, reg, gpc,
                   genc, listed, starts, migrations, effects, interfered,
                   migrated, stdout, diag, loads, printed>>
    /\ \/ /\ stdin' = Append(stdin, [parsed |-> FALSE, id |-> NoId])
          /\ UNCHANGED <<req, reply>>
       \/ \E r \in {q \in Requests : Dispatch(q) = "diagnose_connection"} :
             /\ stdin' = Append(stdin, [parsed |-> TRUE, id |-> r.id])
             /\ req' = r
             /\ reply' = NoReply

\* a server that has started on a store with one machine and its accounts
\* and has read a diagnose_connection call, either as its first request or
\* after a register_machine call that failed at its account
InitDiag ==
    /\ \E orphan \in BOOLEAN :
          /\ machines = {[id |-> 1, name |-> "alpha", status |-> "active"]}
                \cup (IF orphan
                      THEN {[id |-> 2, name |-> "beta", status |-> "active"]}
                      ELSE {})
          /\ nextMachineId = (IF orphan THEN 3 ELSE 2)
          /\ req \in {r \in Requests : Dispatch(r) = "diagnose_connection"}
          /\ IF orphan
             THEN \E id \in RequestIds :
                     /\ stdin = <<[parsed |-> TRUE, id |-> id],
                                  [parsed |-> TRUE, id |-> req.id]>>
                     /\ stdout = <<[id |-> id, result |-> JsonNull,
                                    error |-> ErrorObject]>>
             ELSE /\ stdin = <<[parsed |-> TRUE, id |-> req.id]>>
                  /\ stdout = <<>>
    /\ accounts = [id \in 1..2 |->
                      [machine_id |-> 1,
                       credential |-> Encrypt(1, Plain("hunter2"))]]
    /\ constraints = {[id |-> 1, machine_id |-> 1]}
    /\ nextAccountId = 3
    /\ keyring = 1
    /\ master_key = 1
    /\ keysMade = 1
    /\ stderr = {}
    /\ pc = "idle"
    /\ items = <<>>
    /\ idx = 0
    /\ new_key = NoKey
    /\ tx = NoTx
    /\ reply = NoReply
    /\ reg = NoArgs
    /\ gpc = "idle"
    /\ genc = NoRow
    /\ listed = {}
    /\ starts = 1
    /\ migrations = 1
    /\ effects = <<>>
    /\ interfered = FALSE
    /\ migrated = [key |-> 1, store |-> accounts]
    /\ diag = NoDiag
    /\ loads = 0
    /\ printed = <<[text |-> Banner, target |-> 0, after |-> 0, start |-> 1]>>

\* the server handling diagnose_connection calls
NextDiag ==
    \/ run_mcp_loop_read_diagnose
    \/ handle_diagnose_connection_probe
    \/ handle_diagnose_connection_load
    \/ handle_diagnose_connection_analyze
    \/ run_mcp_loop_write

SpecDiag == InitDiag /\ [][NextDiag]_vars

\* ================================================================ claims
RotationOrder == <<"commit", "keyring", "swap">>

IsPrefix(s, t) == Len(s) <= Len(t) /\ \A i \in 1..Len(s) : s[i] = t[i]

\* C1: when rotate_keys returns Ok and no other thread wrote the accounts
\* table during the call, every snapshotted account is still stored, its
\* credential decrypts under the new key to the plaintext its snapshotted
\* credential decrypted to under the old key, and the in-memory key is the
\* new key.
C1_RotationPreservesPlaintexts ==
    [][(pc = "rot_swap" /\ pc' = "idle" /\ ~interfered) =>
          /\ reply' = RotReply("ok")
          /\ master_key' = new_key
          /\ master_key' # master_key
          /\ \A n \in 1..Len(items) :
                LET id == items[n].id
                    before == Decrypt(master_key, items[n].credential)
                IN  /\ before.ok
                    /\ id \in DOMAIN accounts'
                    /\ Decrypt(master_key', accounts'[id].credential) = before]_vars

\* a rotation of a non-empty store has returned Ok
C1_Witness ==
    /\ pc = "idle"
    /\ reply = RotReply("ok")
    /\ effects = RotationOrder
    /\ DOMAIN accounts # {}
    /\ \A id \in DOMAIN accounts : Decrypt(master_key, accounts[id].credential).ok

\* C2: a rotate_keys call that fails before its commit completed returns an
\* error and leaves every stored credential, the keyring entry and the
\* in-memory key as they were: no step between the snapshot and the commit
\* changes them, and neither does the failing step.
C2_FailureBeforeCommitIsNoOp ==
    [][/\ (pc = "rot_loop" /\ pc' \notin {"rot_keyring", "stopped"}) =>
            /\ UNCHANGED <<accounts, keyring, master_key>>
            /\ pc' = "idle" => (reply' = RotReply("err") /\ tx' = NoTx)
       /\ (pc = "idle" /\ pc' = "idle" /\ reply' # reply
              /\ reply' = RotReply("err")) =>
            UNCHANGED <<accounts, keyring, master_key>>]_vars

\* a rotation that had generated its key and read a non-empty store has
\* failed before its commit
C2_Witness ==
    /\ pc = "idle"
    /\ reply = RotReply("err")
    /\ effects = <<>>
    /\ keysMade > keyring
    /\ keyring = master_key
    /\ DOMAIN accounts # {}
    /\ \A id \in DOMAIN accounts : Decrypt(master_key, accounts[id].credential).ok

\* C3: within a rotate_keys call the commit, the keyring write and the
\* in-memory swap happen in this order, each only after the one before: the
\* keyring is written only after the commit, the in-memory key is replaced
\* only after the keyring holds the new key.
C3_CommitThenKeyringThenSwap ==
    [][/\ IsPrefix(effects', RotationOrder)
       /\ (keyring' # keyring /\ pc # "stopped") =>
            /\ effects = <<"commit">>
            /\ tx = NoTx
            /\ keyring' = new_key
       /\ (master_key' # master_key /\ master_key # NoKey /\ pc' # "stopped") =>
            /\ effects = <<"commit", "keyring">>
            /\ keyring = new_key
            /\ master_key' = new_key]_vars

\* a rotation went through all three effects
C3_Witness ==
    /\ effects = RotationOrder
    /\ keyring = master_key
    /\ DOMAIN accounts # {}

\* C4: when the keyring write fails after the commit, rotate_keys returns
\* an error, the new key has been printed, every snapshotted credential in
\* the database is encrypted under the new key, and the in-memory key and
\* the keyring entry are both still the old key.
C4_KeyringFailureAfterCommit ==
    [][(pc = "rot_keyring" /\ pc' = "idle") =>
          /\ reply' = RotReply("err")
          /\ new_key \in stderr'
          /\ \A n \in 1..Len(items) :
                /\ items[n].id \in DOMAIN accounts'
                /\ Decrypt(new_key, accounts'[items[n].id].credential).ok
          /\ UNCHANGED <<master_key, keyring>>
          /\ master_key' = keyring'
          /\ master_key' # new_key]_vars

\* a rotation of a non-empty store has failed at the keyring write
C4_Witness ==
    /\ pc = "idle"
    /\ reply = RotReply("err")
    /\ effects = <<"commit">>
    /\ stderr # {}
    /\ DOMAIN accounts # {}
    /\ \A id \in DOMAIN accounts : ~Decrypt(master_key, accounts[id].credential).ok

PlaintextOf(cred) == Plain(cred.text)

\* C5 (as claimed): no account returned by list_accounts carries a
\* credential field equal to the account's plaintext credential or to its
\* stored ciphertext.
C5_NeverPlaintextNorCiphertext ==
    [][listed' # listed =>
          \A r \in listed' :
             /\ r.id \in DOMAIN accounts'
             /\ r.credential # accounts'[r.id].credential
             /\ r.credential # PlaintextOf(accounts'[r.id].credential)]_vars

\* C5 (amended): every account returned by list_accounts carries the fixed
\* masking sentinel as its credential field; the field never equals the
\* stored ciphertext, and it equals the account's plaintext credential only
\* when that plaintext is itself the sentinel string.
C5_AlwaysSentinel ==
    [][listed' # listed =>
          \A r \in listed' :
             /\ r.id \in DOMAIN accounts'
             /\ r.machine_id = accounts'[r.id].machine_id
             /\ r.credential = Plain(SENTINEL)
             /\ r.credential # accounts'[r.id].credential
             /\ r.credential = PlaintextOf(accounts'[r.id].credential)
                   => accounts'[r.id].credential.text = SENTINEL]_vars

\* list_accounts has returned an account whose plaintext is an ordinary
\* password
C5_Witness ==
    \E r \in listed :
       /\ r.id \in DOMAIN accounts
       /\ accounts[r.id].credential.text = "hunter2"
       /\ IsCiphertext(accounts[r.id].credential)

Started == pc \notin {"stopped", "migrate", "mig_loop"}

\* C6: once startup and its credential migration have completed, every
\* credential in the accounts table is a ciphertext produced by encrypt,
\* never a plaintext, whatever add_account, update_account_credential,
\* register_machine and rotate_keys calls have run.
C6_NoCleartextAtRest ==
    Started => \A id \in DOMAIN accounts : IsCiphertext(accounts[id].credential)

\* the store holds a credential written by update_account_credential and
\* one written by register_machine
C6_Witness ==
    /\ Started
    /\ \E id \in DOMAIN accounts : accounts[id].credential.text = "s3cret"
    /\ \E id \in DOMAIN accounts : accounts[id].credential.text = SENTINEL

\* C7: a migration run over the store that a completed migration left,
\* under the same active key, changes no stored credential.
C7_MigrationIdempotent ==
    [][(pc = "mig_loop" /\ pc' = "idle"
           /\ migrated.key = master_key /\ migrated.store = accounts) =>
          (accounts' = accounts /\ DOMAIN tx.staged = {})]_vars

\* a second migration has gone through every row of a non-empty store left
\* by a completed migration under the same key
C7_Witness ==
    /\ pc = "mig_loop"
    /\ idx > Len(items)
    /\ Len(items) > 0
    /\ migrated.key = master_key
    /\ migrated.store = accounts

\* C8: a successful migration replaces exactly the credentials that fail to
\* decrypt under the active key, each by the encryption of its previous
\* value under that key, keeps every other row as stored, and leaves every
\* credential decryptable under the active key.
C8_MigrationChangesExactlyUndecryptable ==
    [][(pc = "mig_loop" /\ pc' = "idle") =>
          /\ DOMAIN accounts' = DOMAIN accounts
          /\ master_key' = master_key
          /\ \A id \in DOMAIN accounts :
                LET old == accounts[id].credential
                IN  /\ accounts'[id].machine_id = accounts[id].machine_id
                    /\ accounts'[id].credential =
                          (IF Decrypt(master_key, old).ok THEN old
                           ELSE Encrypt(master_key, old))
                    /\ Decrypt(master_key, accounts'[id].credential).ok]_vars

\* a migration is about to commit with some rows staged and some left as
\* they are
C8_Witness ==
    /\ pc = "mig_loop"
    /\ idx > Len(items)
    /\ DOMAIN tx.staged # {}
    /\ DOMAIN tx.staged # DOMAIN accounts

\* C9: migration is all-or-nothing: until its commit the stored credentials
\* are those read when it started, and a failure (or the end of the
\* process) before the commit leaves them so, with nothing staged left.
C9_MigrationAllOrNothing ==
    [][pc = "mig_loop" =>
          /\ items = SelectCredentials(accounts)
          /\ pc' # "idle" => accounts' = accounts
          /\ pc' = "stopped" => tx' = NoTx]_vars

\* a migration has staged an update and stands before a row whose
\* encryption or update can fail
C9_Witness ==
    /\ pc = "mig_loop"
    /\ DOMAIN tx.staged # {}
    /\ idx <= Len(items)
    /\ needs_migration(master_key, items[idx].credential)

\* C10: migration runs once per process and has completed before the
\* protocol thread handles a request and before the GUI thread exists: no
\* request meets a store holding an un-migrated credential.
C10_MigratedBeforeServing ==
    /\ migrations <= 1
    /\ gpc # "off" => Started
    /\ Started =>
          /\ migrations = 1
          /\ \A id \in DOMAIN accounts : IsCiphertext(accounts[id].credential)

\* a request is being handled over a non-empty store
C10_Witness ==
    /\ pc \in {"reg_account", "rot_loop"}
    /\ migrations = 1
    /\ DOMAIN accounts # {}

\* the requests among the lines read so far, in order
ParsedLines == SelectSeq(stdin, LAMBDA l : l.parsed)

Populated(member) == member # JsonNull

\* C11 as stated: every request handled yields exactly one response line,
\* which carries the request's id and in which exactly one of result and
\* error is populated.
C11_ExactlyOneOfResultAndError ==
    [][/\ stdout' # stdout =>
             /\ req # NoReq /\ req' = NoReq
             /\ \E line \in {stdout'[Len(stdout')]} :
                   /\ stdout' = Append(stdout, line)
                   /\ line.id = req.id
                   /\ Populated(line.result) # Populated(line.error)
       /\ (req # NoReq /\ req' = NoReq) => stdout' # stdout]_vars

\* C11 (amended): every request handled yields exactly one response line,
\* which carries the request's id; error is populated exactly when the
\* handling failed and result is then null; result and error are never both
\* populated, and both are null only in the answer to
\* notifications/initialized.
C11_OneResponseNeverBoth ==
    [][/\ stdout' # stdout =>
             /\ req # NoReq /\ req' = NoReq
             /\ \E line \in {stdout'[Len(stdout')]} :
                   /\ stdout' = Append(stdout, line)
                   /\ line.id = req.id
                   /\ ~(Populated(line.result) /\ Populated(line.error))
                   /\ Populated(line.error) <=> reply.status = "err"
                   /\ (~Populated(line.result) /\ ~Populated(line.error)) <=>
                         req.method = "notifications/initialized"
       /\ (req # NoReq /\ req' = NoReq) => stdout' # stdout]_vars

\* two requests with different ids were answered, one with a result and one
\* with an error
C11_Witness ==
    /\ Len(stdout) = 2
    /\ stdout[1].id # stdout[2].id
    /\ Populated(stdout[1].result) /\ ~Populated(stdout[1].error)
    /\ Populated(stdout[2].error) /\ ~Populated(stdout[2].result)
    /\ req = NoReq

\* C12: a line read that does not parse as a request produces no response
\* and no change of state, and the loop goes on to the next line.
C12_MalformedLineIsDropped ==
    [][(Len(stdin') = Len(stdin) + 1 /\ ~stdin'[Len(stdin')].parsed) =>
          /\ pc' = "idle"
          /\ req' = NoReq
          /\ UNCHANGED <<storeVars, keyVars, stdout>>]_vars

\* C13: the requests read and the responses written alternate: every request
\* read but the one being handled has been answered, in the order read, and
\* a line is read only when no request is being handled.
C13_StrictlySequential ==
    [][/\ Len(stdout') = Len(ParsedLines') - (IF req' = NoReq THEN 0 ELSE 1)
       /\ \A i \in 1..Len(stdout') : stdout'[i].id = ParsedLines'[i].id
       /\ req' # NoReq => req'.id = ParsedLines'[Len(ParsedLines')].id
       /\ stdin' # stdin => req = NoReq]_vars

\* a second request is being handled after the first was answered
C13_Witness ==
    /\ Len(ParsedLines) = 2
    /\ Len(stdout) = 1
    /\ req # NoReq
    /\ req.id # stdout[1].id

\* C14: a handler that fails returns to the loop, which writes one error
\* response with code -32603 carrying the request's id and is then ready to
\* read the next line.
C14_HandlerFailureIsAnErrorResponse ==
    [][/\ (req # NoReq /\ reply' # reply /\ reply'.status = "err") =>
             (pc' = "idle" /\ req' = req /\ stdout' = stdout)
       /\ (req # NoReq /\ pc = "idle" /\ reply.status = "err") =>
             /\ stdout' = Append(stdout,
                    [id |-> req.id, result |-> JsonNull,
                     error |-> [kind |-> "error", n |-> -32603, tools |-> <<>>]])
             /\ pc' = "idle"
             /\ req' = NoReq
             /\ master_key' = master_key]_vars

\* a rotation that failed at the keyring was answered with an error, and the
\* loop is reading again
C14_Witness ==
    /\ reply = RotReply("err")
    /\ stderr # {}
    /\ Len(stdout) > 0
    /\ Populated(stdout[Len(stdout)].error)
    /\ req = NoReq
    /\ pc = "idle"

\* C15: whatever the store holds and whatever was handled before, the answer
\* to tools/list describes exactly the four tools register_machine,
\* list_machines, diagnose_connection and rotate_keys, each with the
\* required members of its input.
C15_ToolsListIsFixed ==
    [][(req.method = "tools/list" /\ stdout' # stdout) =>
          LET line == stdout'[Len(stdout')]
              tools == line.result.tools
          IN  /\ ~Populated(line.error)
              /\ Len(tools) = 4
              /\ {tools[i].name : i \in 1..4} =
                    {"register_machine", "list_machines",
                     "diagnose_connection", "rotate_keys"}
              /\ \A i \in 1..4 :
                    tools[i].required =
                       CASE tools[i].name = "register_machine" ->
                               {"name", "ip_address", "purpose", "ownership",
                                "os_type", "username", "auth_type", "credential"}
                         [] tools[i].name = "diagnose_connection" -> {"machine_id"}
                         [] OTHER -> {}]_vars

\* tools/list was answered after a machine had been registered
C15_Witness ==
    /\ Len(stdout) = 2
    /\ stdout[1].result.kind = "text" /\ stdout[1].result.n > 0
    /\ stdout[2].result.kind = "tools"

NeedsArguments == {"register_machine", "diagnose_connection"}

\* C16 as stated: a tools/call whose params are absent, whose name is not
\* one of the four tools, or whose arguments are absent is answered with an
\* error, and no step of its handling runs a tool or changes the store or
\* the keys.
C16_CallNeedsNameAndArguments ==
    [][(/\ req # NoReq
        /\ req.method = "tools/call"
        /\ (~req.params \/ req.name \notin ToolNames \/ ~req.arguments)) =>
          /\ UNCHANGED <<storeVars, keyVars>>
          /\ pc' = "idle"
          /\ reply' # reply => reply'.status = "err"]_vars

\* C16 (amended): the same, with arguments required only by
\* register_machine and diagnose_connection.
C16_CallNeedsNameAndSomeArguments ==
    [][(/\ req # NoReq
        /\ req.method = "tools/call"
        /\ \/ ~req.params
           \/ req.name \notin ToolNames
           \/ (~req.arguments /\ req.name \in NeedsArguments)) =>
          /\ UNCHANGED <<storeVars, keyVars>>
          /\ pc' = "idle"
          /\ reply' # reply => reply'.status = "err"]_vars

\* a register_machine call without arguments was refused
C16_Witness ==
    /\ req.method = "tools/call"
    /\ req.name = "register_machine"
    /\ ~req.arguments
    /\ reply.status = "err"

\* C17: a register_machine call in which a required field is missing is
\* answered with an error and no step of it changes the machines or the
\* accounts.
C17_MissingFieldLeavesStoreUnchanged ==
    [][(\/ pc = "idle" /\ pc' = "reg_account" /\ reg'.missing # "none"
        \/ pc = "reg_account" /\ reg.missing # "none") =>
          /\ UNCHANGED <<machines, accounts>>
          /\ pc' = "idle" => reply'.status = "err"]_vars

\* C18: when register_machine returns success, its text names the id of the
\* machine it added, list_machines includes that machine with status
\* "active", and exactly one account, the one row added, references it; that
\* row's credential is the supplied credential encrypted under the active
\* key.  Success is returned only for a complete argument set and an unused
\* name.
C18_RegisterAddsMachineAndAccount ==
    [][/\ (pc = "idle" /\ pc' = "reg_account") =>
             /\ \E m \in machines' \ machines :
                   /\ machines' = machines \cup {m}
                   /\ m.id = reg'.machine_id
                   /\ \A old \in machines : old.id # m.id /\ old.name # m.name
       /\ (pc = "reg_account" /\ reply' # reply /\ reply'.status = "ok") =>
             LET id == reg.machine_id
                 refs == {a \in DOMAIN accounts' : accounts'[a].machine_id = id}
             IN  /\ reg.missing = "none"
                 /\ reply'.value = [kind |-> "text", n |-> id, tools |-> <<>>]
                 /\ \E m \in list_machines(machines') :
                       m.id = id /\ m.status = "active"
                 /\ Cardinality(refs) = 1
                 /\ refs = DOMAIN accounts' \ DOMAIN accounts
                 /\ \A a \in refs :
                       /\ accounts'[a].credential.layers =
                             <<master_key>> \o reg.credential.layers
                       /\ accounts'[a].credential.text = reg.credential.text
                       /\ Decrypt(master_key, accounts'[a].credential).value =
                             reg.credential]_vars

\* a register_machine call has returned success for the second machine
C18_Witness ==
    /\ reply = [op |-> "register_machine", status |-> "ok", value |-> Text(2)]
    /\ \E m \in machines : m.id = 2 /\ m.status = "active"
    /\ \E a \in DOMAIN accounts : accounts[a].machine_id = 2

C20_MachineNamesUnique ==
    [][/\ \A m1, m2 \in machines' : m1.name = m2.name => m1 = m2
       /\ \A m \in machines' \ machines :
             \A old \in machines : old.name # m.name]_vars

\* the store holds a machine of every name, and a register_machine call
\* has since failed
C20_Witness ==
    /\ Cardinality(machines) = 2
    /\ \A name \in MachineNames : NameTaken(name)
    /\ reply = RegReply("err")
    /\ pc = "idle"
    /\ effects = <<>>

\* the positions of the patterns that compile and match the text
Matching(stderr_text, patterns) ==
    {i \in 1..Len(patterns) :
        /\ Regex_new(patterns[i].pattern).ok
        /\ stderr_text \in Regex_new(patterns[i].pattern).matches}

\* C21: match_error_pattern returns the suggestion of the first pattern in
\* list order whose regular expression matches the stderr text, even when
\* later patterns match too, and no suggestion exactly when no pattern
\* matches.
C21_FirstMatchingPatternWins ==
    (diag.stage \in {"loaded", "analyzed"}) =>
        LET hits == Matching(diag.stderr, diag.patterns)
            found == match_error_pattern(diag.stderr, diag.patterns)
        IN  /\ (found = NoSuggestion) <=> (hits = {})
            /\ hits # {} =>
                  \E i \in hits :
                     /\ \A j \in hits : i <= j
                     /\ found = diag.patterns[i].suggestion
            /\ diag.stage = "analyzed" =>
                  reply.value.n = (IF hits = {} THEN EmptyData ELSE found)

\* the failure has been analyzed against a list whose two patterns both
\* match, and the first one's suggestion was returned
C21_Witness ==
    /\ diag.stage = "analyzed"
    /\ Matching(diag.stderr, diag.patterns) = {1, 2}
    /\ diag.patterns[1].suggestion # diag.patterns[2].suggestion
    /\ reply.value.n = diag.patterns[1].suggestion

\* C22: a probe that exits unsuccessfully is answered with a normal result
\* that carries a structured hint if and only if some pattern matches its
\* stderr; without a match the text says that no specific hint was found and
\* no hint is carried; a probe that exits successfully is answered with the
\* generic success message and no hint.
C22_HintExactlyOnMatch ==
    [][(Dispatch(req) = "diagnose_connection" /\ reply = NoReply
        /\ reply' # NoReply /\ reply'.status = "ok") =>
          IF diag.stage = "loaded"
          THEN LET hits == Matching(diag.stderr, diag.patterns)
               IN  /\ (reply'.value.n \notin {NoData, EmptyData}) <=> (hits # {})
                   /\ hits # {} =>
                         /\ reply'.value.kind = "AGENT HINT"
                         /\ \E i \in hits :
                               reply'.value.n = diag.patterns[i].suggestion
                   /\ hits = {} =>
                         reply'.value =
                            Diagnosis("No specific troubleshooting hint found",
                                      EmptyData)
          ELSE /\ diag = NoDiag
               /\ reply'.value = Diagnosis("Connection successful", NoData)]_vars

\* a failed probe was answered without a hint although the knowledge base
\* was not empty
C22_Witness ==
    /\ diag.stage = "analyzed"
    /\ diag.patterns # <<>>
    /\ reply.status = "ok"
    /\ reply.value = Diagnosis("No specific troubleshooting hint found",
                               EmptyData)

\* the values the tables hold, and the values staged in a transaction
StoredValues ==
    {accounts[id].credential : id \in DOMAIN accounts}
        \cup {Plain(m.name) : m \in machines}
        \cup {Plain(m.status) : m \in machines}
        \cup {tx.staged[id] : id \in DOMAIN tx.staged}

\* C23: the master key is never written to the database: no stored value is
\* the active master key or a key generated by rotate_keys.
C23_KeyNeverInDatabase ==
    \A k \in 1..keysMade :
       \A v \in StoredValues :
          /\ v # KeyMaterial(k)
          /\ v.text # KeyMaterial(k).text

\* a rotation has generated a key, re-encrypted the rows under it and made
\* it the active key
C23_Witness ==
    /\ pc = "idle"
    /\ reply = RotReply("ok")
    /\ master_key = keysMade
    /\ master_key > 1
    /\ \E id \in DOMAIN accounts :
          Decrypt(master_key, accounts[id].credential).ok

\* C24: a master key is written to operator-visible output in exactly one
\* situation, a keyring write that fails after the rotation transaction
\* committed: every such failure prints the new key, and no other step of
\* startup, migration, rotation or the protocol loop prints or returns one.
C24_KeyPrintedOnlyOnKeyringFailure ==
    [][/\ stderr' # stderr =>
             /\ pc = "rot_keyring"
             /\ effects = <<"commit">>
             /\ keyring' = keyring
             /\ master_key' = master_key
             /\ reply' = RotReply("err")
             /\ stderr' = stderr \cup {new_key}
       /\ (pc = "rot_keyring" /\ pc' = "idle") => new_key \in stderr'
       /\ \A k \in 1..keysMade :
             /\ reply'.value.kind # KeyMaterial(k).text
             /\ \A i \in 1..Len(stdout') :
                   /\ stdout'[i].result.kind # KeyMaterial(k).text
                   /\ stdout'[i].error.kind # KeyMaterial(k).text]_vars

\* the keyring write failed after the commit and the new key was printed
C24_Witness ==
    /\ pc = "idle"
    /\ reply = RotReply("err")
    /\ effects = <<"commit">>
    /\ stderr # {}
    /\ \A k \in stderr : k # keyring /\ k # master_key

\* C25: when a snapshotted credential fails to decrypt under the old key,
\* rotate_keys returns an error and no write persists: the rows staged
\* before the failing row keep their previous ciphertext, the keyring is
\* not written and the in-memory key is not swapped.
C25_DecryptFailureAbortsRotation ==
    [][(/\ pc = "rot_loop"
        /\ idx <= Len(items)
        /\ ~Decrypt(master_key, items[idx].credential).ok
        /\ <<pc, idx>>' # <<pc, idx>>
        /\ pc' # "stopped") =>
          /\ pc' = "idle"
          /\ reply' = RotReply("err")
          /\ tx' = NoTx
          /\ accounts' = accounts
          /\ \A n \in 1..(idx - 1) :
                accounts'[items[n].id].credential = items[n].credential
          /\ keyring' = keyring
          /\ master_key' = master_key
          /\ effects = <<>>
          /\ effects' = <<>>
          /\ stderr' = stderr]_vars

\* a rotation has staged the re-encryption of one row and is at a row that
\* does not decrypt under the key in memory
C25_Witness ==
    /\ pc = "rot_loop"
    /\ idx <= Len(items)
    /\ idx > 1
    /\ tx.staged # <<>>
    /\ ~Decrypt(master_key, items[idx].credential).ok

C28_StoredCredentialsDecryptUnderActiveKey ==
    (pc \in {"idle", "reg_account"} /\ stderr = {}) =>
        \A id \in DOMAIN accounts :
           Decrypt(master_key, accounts[id].credential).ok

\* C29: the keyring entry and the in-memory active key are equal in every
\* state of a running process except between the successful keyring write
\* of rotate_keys and its swap; in particular after every completed
\* rotate_keys call, whether it succeeded, failed before its commit or
\* failed at the keyring write.
C29_KeyringEqualsActiveKey ==
    /\ (master_key # NoKey /\ pc # "rot_swap") => keyring = master_key
    /\ pc = "rot_swap" => (keyring = new_key /\ keyring # master_key)

\* a rotation failed at the keyring write after its commit, and the keyring
\* still holds the key in memory
C29_Witness ==
    /\ pc = "idle"
    /\ reply = RotReply("err")
    /\ effects = <<"commit">>
    /\ new_key = NoKey
    /\ keyring = master_key
    /\ \E id \in DOMAIN accounts :
          ~Decrypt(master_key, accounts[id].credential).ok

\* C30: after a rotation that failed at the keyring write following its
\* commit, the next start loads the old key from the keyring, and the
\* startup migration takes every credential stored under the new key for
\* legacy plaintext and encrypts it again under the old key; decrypting such
\* a credential under the old key then yields the new-key ciphertext, not
\* the original plaintext.
C30_RestartDoubleEncrypts ==
    [][/\ (pc = "stopped" /\ pc' = "migrate" /\ stderr # {}) =>
             /\ master_key' = keyring
             /\ master_key' \notin stderr
       /\ (pc = "mig_loop" /\ pc' = "idle") =>
             \A id \in DOMAIN accounts :
                LET old == accounts[id].credential
                    new == accounts'[id].credential
                IN  (IsCiphertext(old) /\ Head(old.layers) \in stderr) =>
                       /\ new = Encrypt(master_key, old)
                       /\ Decrypt(master_key, new).ok
                       /\ Decrypt(master_key, new).value = old
                       /\ IsCiphertext(Decrypt(master_key, new).value)
                       /\ Decrypt(master_key, new).value # Plain(old.text)]_vars

\* a process started after a rotation that printed its key has wrapped a
\* credential stored under that key in the old key
C30_Witness ==
    /\ pc = "idle"
    /\ reply.op = "new"
    /\ starts = 2
    /\ \E id \in DOMAIN accounts, k \in stderr :
          /\ accounts[id].credential.layers = <<master_key, k>>
          /\ Decrypt(master_key, accounts[id].credential).value =
                Encrypt(k, Plain(accounts[id].credential.text))

\* C31: when, inside register_machine, the account creation fails after the
\* machine was created, the call returns an error, the new machine stays in
\* the store with no account referencing it, and nothing deletes it.
C31_FailedAccountLeavesOrphanMachine ==
    [][/\ (pc = "reg_account" /\ pc' = "idle" /\ reply'.status # "ok") =>
             /\ reply' = RegReply("err")
             /\ machines' = machines
             /\ accounts' = accounts
             /\ \E m \in machines' : m.id = reg.machine_id
             /\ \A a \in DOMAIN accounts' :
                   accounts'[a].machine_id # reg.machine_id
       /\ machines \subseteq machines']_vars

\* register_machine has returned an error and a machine without an account
\* is in the store
C31_Witness ==
    /\ pc = "idle"
    /\ reply = RegReply("err")
    /\ \E m \in machines :
          \A a \in DOMAIN accounts : accounts[a].machine_id # m.id

\* C32: delete_machine(id) deletes the accounts of machine id, then its
\* constraints, and only then the machine row; when the row has been deleted
\* no account and no constraint references id, the machine is gone, and the
\* machines, accounts and constraints of every other id are as they were.
C32_DeleteMachineCleansUpFirst ==
    [][/\ (gpc = "idle" /\ gpc' = "del_constraints") =>
             /\ accounts' = Restrict(accounts,
                    {a \in DOMAIN accounts :
                        accounts[a].machine_id # genc'.machine_id})
             /\ UNCHANGED <<machines, constraints>>
       /\ (gpc = "del_constraints" /\ gpc' = "del_machine") =>
             /\ constraints' =
                   {c \in constraints : c.machine_id # genc.machine_id}
             /\ genc' = genc
             /\ UNCHANGED <<machines, accounts>>
       /\ (gpc = "del_machine" /\ gpc' = "idle" /\ machines' # machines) =>
             /\ machines' = {m \in machines : m.id # genc.machine_id}
             /\ UNCHANGED <<accounts, constraints>>
             /\ \A a \in DOMAIN accounts' :
                   accounts'[a].machine_id # genc.machine_id
             /\ \A c \in constraints' : c.machine_id # genc.machine_id
       /\ ~(machines \subseteq machines') => gpc = "del_machine"]_vars

\* machine 1 and its rows have been deleted while another machine and its
\* account are still stored
C32_Witness ==
    /\ gpc = "idle"
    /\ nextMachineId > 1
    /\ \A m \in machines : m.id # 1
    /\ \A a \in DOMAIN accounts : accounts[a].machine_id # 1
    /\ \A c \in constraints : c.machine_id # 1
    /\ \E m \in machines :
          \E a \in DOMAIN accounts : accounts[a].machine_id = m.id

\* C33: diagnose_connection runs the probe only after both lookups
\* succeeded: without a stored machine of the given id, and otherwise
\* without an account of that machine, it returns an error and runs no
\* probe; of several accounts of the machine the first found is used; a
\* probe that cannot be spawned yields an error, a probe that runs and exits
\* unsuccessfully yields a normal result.
C33_ProbeOnlyAfterBothLookups ==
    [][/\ (diag = NoDiag /\ diag' # NoDiag) =>
             LET id == diag'.machine_id
                 stored == \E m \in machines : m.id = id
                 of_machine == {a \in DOMAIN accounts :
                                   accounts[a].machine_id = id}
                 spawned == diag'.stage \in {"spawn_failed", "succeeded",
                                             "probed"}
             IN  /\ spawned =>
                       /\ stored
                       /\ diag'.account \in of_machine
                       /\ \A a \in of_machine : diag'.account <= a
                 /\ (~stored \/ of_machine = {}) =>
                       /\ diag'.stage = "rejected"
                       /\ diag'.account = 0
                 /\ diag'.stage \in {"rejected", "spawn_failed"} =>
                       reply'.status = "err"
                 /\ diag'.stage = "succeeded" => reply'.status = "ok"
                 /\ diag'.stage = "probed" => reply' = NoReply
       /\ (diag.stage \in {"probed", "loaded"} /\ reply' # reply) =>
             reply'.status = "ok"]_vars

\* the probe ran for a machine that has two accounts, with the first of
\* them, exited unsuccessfully and was answered with a normal result
C33_Witness ==
    /\ diag.stage = "analyzed"
    /\ reply.status = "ok"
    /\ Cardinality({a \in DOMAIN accounts :
                       accounts[a].machine_id = diag.machine_id}) = 2
    /\ diag.account = 1
    /\ \E m \in machines :
          /\ m.id # diag.machine_id
          /\ \A a \in DOMAIN accounts : accounts[a].machine_id # m.id

\* C34: the knowledge base is loaded at most once per process, lazily on
\* the first diagnosis that needs it: over any sequence of
\* diagnose_connection requests the loader runs at most one time.
C34_KnowledgeBaseLoadedOnce ==
    loads <= 1

RECURSIVE Interleave(_, _)
\* the lines of the standard output in the order written, from response
\* line i and the texts still to be placed
Interleave(i, texts) ==
    IF texts # <<>> /\ Head(texts).after < i
    THEN <<[response |-> FALSE, line |-> Head(texts)]>>
            \o Interleave(i, Tail(texts))
    ELSE IF i <= Len(stdout)
    THEN <<[response |-> TRUE, line |-> stdout[i]]>>
            \o Interleave(i + 1, texts)
    ELSE <<>>

OutputStream == Interleave(1, printed)

\* C35: every line written to the protocol output stream is the response to
\* a request that was read, one line per handled request, in the order of
\* the requests; no other text is written to it.
C35_OutputIsResponsesOnly ==
    /\ Len(OutputStream) = Len(ParsedLines) - (IF req = NoReq THEN 0 ELSE 1)
    /\ \A i \in DOMAIN OutputStream :
          /\ OutputStream[i].response
          /\ OutputStream[i].line.id = ParsedLines[i].id
====
